---- MODULE Spec2Model ----
(***************************************************************************)
(* Model of pmccabe.py: AsyncProcess (two reader threads per job, kill),   *)
(* PmccabeCommand (run, append_string, service_text_queue, finish) and the *)
(* host's single UI thread with its set_timeout scheduler.                 *)
(*                                                                         *)
(* Text is a sequence of fragments.  A fragment stands for one string that *)
(* the program handles as a unit (the normalised text of one read, or one  *)
(* message literal); the program never splits a string, so concatenation   *)
(* of strings is concatenation of fragment sequences and len() is the sum  *)
(* of the fragment lengths.                                                *)
(***************************************************************************)
EXTENDS Integers, Sequences, FiniteSets, TLC

\* ---------------------------------------------------------------- bounds
MaxRuns == 2          \* run(kill=False) requests issued by the user
MaxCancels == 1       \* run(kill=True) requests issued by the user
MaxData == 1          \* os.read calls that return bytes, over all streams
MaxStreamData == 2    \* the same, in the single-job specification
MaxStreamLen == 4     \* bytes of the stream followed byte by byte
MaxResults == 3       \* records in the result list given to the bucketer

\* ------------------------------------------------------ program constants
BLOCK_SIZE == 16384
READ_SIZE == 65536

None == 0
Jobs == 1..MaxRuns
Streams == {"out", "err"}
UI == <<0, "ui">>
Unlocked == <<0, "unlocked">>
Readers == Jobs \X Streams
Threads == {UI} \cup Readers

\* Lengths (in characters) of the text one read can deliver.
DataLens == {1, BLOCK_SIZE - 1, READ_SIZE}

\* ------------------------------------------------------------------ text
RECURSIVE TextLen(_)
TextLen(s) == IF s = <<>> THEN 0 ELSE Head(s).len + TextLen(Tail(s))

RECURSIVE Flatten(_)
Flatten(q) == IF q = <<>> THEN <<>> ELSE Head(q) \o Flatten(Tail(q))

Range(s) == {s[i] : i \in DOMAIN s}

Frag(src, kind, id, len) == [src |-> src, kind |-> kind, id |-> id, len |-> len]

\* The message literals of run() and finish().
CancelledText == <<Frag(None, "[Cancelled]", 0, 11)>>
ExceptionText == <<Frag(None, "str(e)\\n", 0, 23)>>
DebugTextNL == <<Frag(None, "debug_text\\n", 0, 1)>>
FinishedText == <<Frag(None, "[Finished]", 0, 10)>>
FinishedInText(p) == <<Frag(p, "[Finished in]", 0, 18)>>
FinishedExitText(p) == <<Frag(p, "[Finished in with exit code]\\n", 0, 36)>>
DebugText == <<>>

VARIABLES
  text_queue,        \* PmccabeCommand.text_queue: sequence of blocks
  text_queue_proc,   \* PmccabeCommand.text_queue_proc: None or a job
  text_queue_lock,   \* holder of PmccabeCommand.text_queue_lock, or Unlocked
  proc,              \* PmccabeCommand.proc
  quiet,             \* PmccabeCommand.quiet
  output_panel,      \* text of PmccabeCommand.output_panel
  timeouts,          \* callbacks pending in sublime.set_timeout
  pc,                \* position of every thread
  tag,               \* per thread: the proc argument of append_string / kill
  str,               \* per thread: the str argument of append_string
  uiTodo,            \* UI thread: append_string calls still to make
  uiAfter,           \* UI thread: where the handler continues after them
  characters,        \* service_text_queue: the block removed
  is_empty,          \* service_text_queue: local is_empty
  killed,            \* AsyncProcess.killed, per job
  listener,          \* AsyncProcess.listener is not None, per job
  alive,             \* the job's OS process has not exited
  nJobs, nRuns, nCancels, nData,
  limit,             \* how many requests and reads the environment makes
  \* history (observation only)
  killCalls,         \* per job: calls of AsyncProcess.kill
  termCount,         \* per job: executions of the termination action
  finishedCalls,     \* per job: calls of listener.on_finished
  lateData,          \* per job: on_data was called after on_finished
  sawEOF,            \* per reader: its loop ended on a zero-byte read
  superseded,        \* jobs still running when a later run() reset the queue
  accepted,          \* text accepted by append_string since the last reset
  drained,           \* text flushed by service_text_queue since the last reset
  applied,           \* jobs whose finish() applied regions / phantoms
  \* one stream seen at the level of bytes (read_fileno and on_data)
  stream,            \* the bytes the analyzer writes to one pipe
  unread,            \* the bytes os.read has not returned yet
  buffer,            \* the incremental decoder's undecoded bytes
  fragments,         \* the texts on_data passed to append_string, in order
  loop,              \* "off", "reading", or ended: "eof" after a zero-byte
                     \* read, "stopped" after a read that decoded to nothing
  \* one line of the output panel seen at the level of characters
  line,              \* the text of the line
  shape,             \* the fields the line was written from
  record,            \* parse_complexity_results' record for it, or NoMatch
  parsed,            \* the line has been parsed
  \* one result list on its way through finish()'s two presentations
  results,           \* parse_complexity_results' list of (result, line) pairs
  settings,          \* pmccabe.sublime-settings: the two thresholds
  target_rows,       \* number of lines of PmccabeCommand.target_view
  complexity_buckets,\* the local complexity_buckets of the last handler run
  regions,           \* regions added to the output panel, per bucket
  phantoms,          \* the list given to PmccabeCommand.phantoms.update
  stage              \* "off", "results", "highlighted" or "annotated"

queueVars == <<text_queue, text_queue_proc, text_queue_lock>>
cmdVars == <<proc, quiet, output_panel>>
uiVars == <<uiTodo, uiAfter, characters, is_empty>>
threadVars == <<pc, tag, str>>
jobVars == <<killed, listener, alive>>
countVars == <<nJobs, nRuns, nCancels, nData, limit>>
histVars == <<killCalls, termCount, finishedCalls, lateData, sawEOF, superseded,
              accepted, drained, applied>>
mainVars == <<queueVars, cmdVars, uiVars, threadVars, jobVars, countVars, histVars,
              timeouts>>
decodeVars == <<stream, unread, buffer, fragments, loop>>
parseVars == <<line, shape, record, parsed>>
annotateVars == <<results, settings, target_rows, complexity_buckets, regions,
                  phantoms, stage>>
pureVars == <<decodeVars, parseVars, annotateVars>>
vars == <<mainVars, pureVars>>

MainInit(lim) ==
  /\ limit = lim
  /\ text_queue = <<>>
  /\ text_queue_proc = None
  /\ text_queue_lock = Unlocked
  /\ proc = None
  /\ quiet = FALSE
  /\ output_panel = <<>>
  /\ timeouts = <<>>
  /\ pc = [t \in Threads |-> IF t = UI THEN "idle" ELSE "none"]
  /\ tag = [t \in Threads |-> None]
  /\ str = [t \in Threads |-> <<>>]
  /\ uiTodo = <<>>
  /\ uiAfter = [pc |-> "idle", proc |-> None]
  /\ characters = <<>>
  /\ is_empty = FALSE
  /\ killed = [j \in Jobs |-> FALSE]
  /\ listener = [j \in Jobs |-> FALSE]
  /\ alive = [j \in Jobs |-> FALSE]
  /\ nJobs = 0 /\ nRuns = 0 /\ nCancels = 0 /\ nData = 0
  /\ killCalls = [j \in Jobs |-> 0]
  /\ termCount = [j \in Jobs |-> 0]
  /\ finishedCalls = [j \in Jobs |-> 0]
  /\ lateData = [j \in Jobs |-> FALSE]
  /\ sawEOF = [r \in Readers |-> FALSE]
  /\ superseded = {}
  /\ accepted = <<>>
  /\ drained = <<>>
  /\ applied = {}

\* No stream is followed byte by byte.
DecodeOff ==
  /\ stream = <<>> /\ unread = <<>> /\ buffer = <<>> /\ fragments = <<>>
  /\ loop = "off"

\* No line is followed character by character.
ParseOff ==
  /\ line = <<>> /\ shape = <<>> /\ record = <<>> /\ parsed = FALSE

\* No result list is followed through bucketing and annotation.
AnnotateOff ==
  /\ results = <<>> /\ settings = <<>> /\ target_rows = 0
  /\ complexity_buckets = <<>> /\ regions = <<>> /\ phantoms = <<>>
  /\ stage = "off"

Init ==
  /\ MainInit([runs |-> MaxRuns, cancels |-> MaxCancels, data |-> MaxData])
  /\ DecodeOff
  /\ ParseOff
  /\ AnnotateOff

\* One job, several reads.
StreamInit ==
  /\ MainInit([runs |-> 1, cancels |-> MaxCancels, data |-> MaxStreamData])
  /\ DecodeOff
  /\ ParseOff
  /\ AnnotateOff

\* ------------------------------------------------------- host scheduler
Timeout(fn, arg, delay) == [fn |-> fn, arg |-> arg, delay |-> delay]

\* sublime.set_timeout(f, delay): callbacks run in order of due time.  A
\* callback scheduled with delay 1 is due after everything pending; one
\* scheduled with delay 0 is due after every pending delay-0 callback and
\* may be due before or after a pending delay-1 callback.
LastZero(ts) ==
  LET zs == {i \in DOMAIN ts : ts[i].delay = 0}
  IN IF zs = {} THEN 0 ELSE CHOOSE i \in zs : \A k \in zs : k <= i

InsertAt(ts, k, e) == SubSeq(ts, 1, k - 1) \o <<e>> \o SubSeq(ts, k, Len(ts))

\* A scheduler that loses every callback scheduled with a delay.
SetTimeoutLosesDelayed(ts, e) ==
  IF e.delay = 0
  THEN {InsertAt(ts, k, e) : k \in (LastZero(ts) + 1)..(Len(ts) + 1)}
  ELSE {ts}

set_timeout(ts, e) ==
  IF e.delay = 0
  THEN {InsertAt(ts, k, e) : k \in (LastZero(ts) + 1)..(Len(ts) + 1)}
  ELSE {Append(ts, e)}

\* ------------------------------------------------------- append_string
\* A staleness test that only fires once another job is registered.
StaleOnlyWhenRegistered(p) ==
  p # text_queue_proc /\ p # None /\ text_queue_proc # None

\* `proc != self.text_queue_proc and proc`
Stale(p) == p # text_queue_proc /\ p # None

\* An append that merges by replacing the last block instead of extending it.
AppendDropsLast(q, s) ==
  LET q1 == IF Len(q) = 0 THEN <<  <<>>  >> ELSE q
      last == q1[Len(q1)]
      available == BLOCK_SIZE - TextLen(last)
  IN IF TextLen(s) < available
     THEN Append(SubSeq(q1, 1, Len(q1) - 1), s)
     ELSE Append(q1, s)

\* The queue after an accepted append of string s (lines 328-338).
AppendAccepted(q, s) ==
  LET q1 == IF Len(q) = 0 THEN <<  <<>>  >> ELSE q
      last == q1[Len(q1)]
      available == BLOCK_SIZE - TextLen(last)
  IN IF TextLen(s) < available
     THEN Append(SubSeq(q1, 1, Len(q1) - 1), last \o s)
     ELSE Append(q1, s)

\* Where thread t continues when its append_string call returns.
ReturnFromAppend(t) ==
  IF t = UI /\ uiTodo # <<>>
  THEN /\ pc' = [pc EXCEPT ![t] = "app_lock"]
       /\ tag' = [tag EXCEPT ![t] = Head(uiTodo).tag]
       /\ str' = [str EXCEPT ![t] = Head(uiTodo).str]
       /\ uiTodo' = Tail(uiTodo)
  ELSE /\ pc' = [pc EXCEPT ![t] = IF t = UI THEN uiAfter.pc ELSE "read"]
       /\ tag' = [tag EXCEPT ![t] = None]
       /\ str' = [str EXCEPT ![t] = <<>>]
       /\ uiTodo' = uiTodo

Call(p, s) == [tag |-> p, str |-> s]

\* The UI thread starts the append_string calls `calls`, then continues at
\* `after` with proc argument `p`.
UIAppends(calls, after, p) ==
  /\ pc' = [pc EXCEPT ![UI] = "app_lock"]
  /\ tag' = [tag EXCEPT ![UI] = Head(calls).tag]
  /\ str' = [str EXCEPT ![UI] = Head(calls).str]
  /\ uiTodo' = Tail(calls)
  /\ uiAfter' = [pc |-> after, proc |-> p]

\* append_string, lines 321-338: the critical section.  A stale call keeps
\* the lock while proc.kill() runs; an accepted call changes the queue and
\* leaves the critical section.
AppLock(t) ==
  /\ pc[t] = "app_lock"
  /\ text_queue_lock = Unlocked
  /\ IF Stale(tag[t])
     THEN /\ text_queue_lock' = t
          /\ killCalls' = [killCalls EXCEPT ![tag[t]] = @ + 1]
          /\ pc' = [pc EXCEPT ![t] = "kill_check"]
          /\ UNCHANGED <<text_queue, accepted, tag, str, uiTodo>>
     ELSE /\ text_queue' = AppendAccepted(text_queue, str[t])
          /\ accepted' = accepted \o str[t]
          /\ IF Len(text_queue) = 0
             THEN /\ pc' = [pc EXCEPT ![t] = "app_sched"]
                  /\ UNCHANGED <<tag, str, uiTodo>>
             ELSE ReturnFromAppend(t)
          /\ UNCHANGED <<text_queue_lock, killCalls>>
  /\ UNCHANGED pureVars
  /\ UNCHANGED <<text_queue_proc, cmdVars, uiAfter, characters, is_empty, jobVars,
                 countVars, termCount, finishedCalls, lateData, sawEOF, superseded,
                 drained, applied, timeouts>>

\* append_string, lines 340-341: `if was_empty: set_timeout(service_text_queue, 0)`
AppSched(t) ==
  /\ pc[t] = "app_sched"
  /\ timeouts' \in set_timeout(timeouts, Timeout("service_text_queue", None, 0))
  /\ ReturnFromAppend(t)
  /\ UNCHANGED pureVars
  /\ UNCHANGED <<queueVars, cmdVars, uiAfter, characters, is_empty, jobVars, countVars,
                 histVars>>

\* ------------------------------------------------------ AsyncProcess.kill
\* Where thread t continues when kill() returns: out of append_string's
\* critical section, or (the UI thread in run(kill=True)) at line 190.
KillReturn(t) ==
  IF text_queue_lock = t
  THEN /\ text_queue_lock' = Unlocked
       /\ ReturnFromAppend(t)
  ELSE /\ text_queue_lock' = text_queue_lock
       /\ pc' = [pc EXCEPT ![t] = "cancel_after"]
       /\ UNCHANGED <<tag, str, uiTodo>>

\* line 104: `if not self.killed`
KillCheck(t) ==
  /\ pc[t] = "kill_check"
  /\ IF killed[tag[t]]
     THEN KillReturn(t)
     ELSE /\ pc' = [pc EXCEPT ![t] = "kill_do"]
          /\ UNCHANGED <<text_queue_lock, tag, str, uiTodo>>
  /\ UNCHANGED pureVars
  /\ UNCHANGED <<text_queue, text_queue_proc, cmdVars, uiAfter, characters, is_empty,
                 jobVars, countVars, histVars, timeouts>>

\* lines 105-116: set the flag, signal the process group, terminate
KillDo(t) ==
  /\ pc[t] = "kill_do"
  /\ killed' = [killed EXCEPT ![tag[t]] = TRUE]
  /\ termCount' = [termCount EXCEPT ![tag[t]] = @ + 1]
  /\ pc' = [pc EXCEPT ![t] = "kill_clear"]
  /\ UNCHANGED pureVars
  /\ UNCHANGED <<queueVars, cmdVars, uiVars, tag, str, listener, alive, countVars,
                 killCalls, finishedCalls, lateData, sawEOF, superseded, accepted,
                 drained, applied, timeouts>>

\* line 117: `self.listener = None`
KillClear(t) ==
  /\ pc[t] = "kill_clear"
  /\ listener' = [listener EXCEPT ![tag[t]] = FALSE]
  /\ KillReturn(t)
  /\ UNCHANGED pureVars
  /\ UNCHANGED <<text_queue, text_queue_proc, cmdVars, uiAfter, characters, is_empty,
                 killed, alive, countVars, histVars, timeouts>>

\* ---------------------------------------------------- PmccabeCommand.run
\* lines 183-185 of run(kill=False): the first critical section
RunReset ==
  /\ pc[UI] = "idle"
  /\ nRuns < limit.runs
  /\ text_queue_lock = Unlocked
  /\ nRuns' = nRuns + 1
  /\ text_queue' = <<>>
  /\ text_queue_proc' = None
  /\ superseded' = superseded \cup (IF proc # None /\ alive[proc] THEN {proc} ELSE {})
  /\ accepted' = <<>>
  /\ drained' = <<>>
  /\ pc' = [pc EXCEPT ![UI] = "run_spawn"]
  /\ UNCHANGED pureVars
  /\ UNCHANGED <<text_queue_lock, cmdVars, uiVars, tag, str, jobVars, nJobs, nCancels,
                 nData, limit, killCalls, termCount, finishedCalls, lateData, sawEOF, applied,
                 timeouts>>

\* The exception handler of run(), lines 212-216.
SpawnFailureCalls(q) ==
  <<Call(None, ExceptionText), Call(None, DebugTextNL)>>
    \o (IF q THEN <<>> ELSE <<Call(None, FinishedText)>>)

\* lines 194-207: a fresh output panel, then AsyncProcess(...): either the
\* job exists with both reader threads started and self.proc names it, or
\* the constructor raised (empty file name, Popen failure).
RunSpawn(ok, q) ==
  /\ pc[UI] = "run_spawn"
  /\ output_panel' = <<>>
  /\ quiet' = q
  /\ IF ok
     THEN LET j == nJobs + 1 IN
          /\ nJobs' = j
          /\ proc' = j
          /\ killed' = [killed EXCEPT ![j] = FALSE]
          /\ listener' = [listener EXCEPT ![j] = TRUE]
          /\ alive' = [alive EXCEPT ![j] = TRUE]
          /\ pc' = [pc EXCEPT ![UI] = "run_register",
                              ![<<j, "out">>] = "init", ![<<j, "err">>] = "init"]
          /\ UNCHANGED <<tag, str, uiTodo, uiAfter>>
     ELSE /\ UIAppends(SpawnFailureCalls(q), "idle", None)
          /\ UNCHANGED <<nJobs, proc, jobVars>>
  /\ UNCHANGED pureVars
  /\ UNCHANGED <<queueVars, characters, is_empty, nRuns, nCancels, nData, limit, histVars,
                 timeouts>>

\* lines 209-210: the second critical section
RunRegister ==
  /\ pc[UI] = "run_register"
  /\ text_queue_lock = Unlocked
  /\ text_queue_proc' = proc
  /\ pc' = [pc EXCEPT ![UI] = "idle"]
  /\ UNCHANGED pureVars
  /\ UNCHANGED <<text_queue, text_queue_lock, cmdVars, uiVars, tag, str, jobVars,
                 countVars, histVars, timeouts>>

\* is_enabled(kill=True), line 309
is_enabled_kill == proc # None /\ alive[proc]

\* run(kill=True), lines 183-189: reset, then `if self.proc: self.proc.kill()`
RunKill ==
  /\ pc[UI] = "idle"
  /\ nCancels < limit.cancels
  /\ is_enabled_kill
  /\ text_queue_lock = Unlocked
  /\ nCancels' = nCancels + 1
  /\ text_queue' = <<>>
  /\ text_queue_proc' = None
  /\ accepted' = <<>>
  /\ drained' = <<>>
  /\ IF proc # None
     THEN /\ killCalls' = [killCalls EXCEPT ![proc] = @ + 1]
          /\ tag' = [tag EXCEPT ![UI] = proc]
          /\ pc' = [pc EXCEPT ![UI] = "kill_check"]
     ELSE UNCHANGED <<killCalls, tag, pc>>
  /\ UNCHANGED pureVars
  /\ UNCHANGED <<text_queue_lock, cmdVars, uiVars, str, jobVars, nJobs, nRuns, nData, limit,
                 termCount, finishedCalls, lateData, sawEOF, superseded, applied,
                 timeouts>>

\* lines 190-192: `self.proc = None; self.append_string(None, "[Cancelled]")`
CancelAfter ==
  /\ pc[UI] = "cancel_after"
  /\ proc' = None
  /\ UIAppends(<<Call(None, CancelledText)>>, "idle", None)
  /\ UNCHANGED pureVars
  /\ UNCHANGED <<queueVars, quiet, output_panel, characters, is_empty, jobVars,
                 countVars, histVars, timeouts>>

\* ------------------------------------- PmccabeCommand.service_text_queue
\* A consumer that still holds text_queue_lock when it returns from the
\* removal to append to the panel.
ServicePopKeepsLock ==
  /\ pc[UI] = "idle"
  /\ timeouts # <<>>
  /\ Head(timeouts).fn = "service_text_queue"
  /\ text_queue_lock = Unlocked
  /\ timeouts' = Tail(timeouts)
  /\ IF Len(text_queue) = 0
     THEN UNCHANGED <<text_queue, characters, is_empty, pc, text_queue_lock>>
     ELSE /\ characters' = Head(text_queue)
          /\ text_queue' = Tail(text_queue)
          /\ is_empty' = (Len(Tail(text_queue)) = 0)
          /\ text_queue_lock' = UI
          /\ pc' = [pc EXCEPT ![UI] = "svc_flush"]
  /\ UNCHANGED pureVars
  /\ UNCHANGED <<text_queue_proc, cmdVars, uiTodo, uiAfter, tag, str,
                 jobVars, countVars, histVars>>

\* lines 343-352, run from the scheduler: remove the oldest block
ServicePop ==
  /\ pc[UI] = "idle"
  /\ timeouts # <<>>
  /\ Head(timeouts).fn = "service_text_queue"
  /\ text_queue_lock = Unlocked
  /\ timeouts' = Tail(timeouts)
  /\ IF Len(text_queue) = 0
     THEN UNCHANGED <<text_queue, characters, is_empty, pc>>
     ELSE /\ characters' = Head(text_queue)
          /\ text_queue' = Tail(text_queue)
          /\ is_empty' = (Len(Tail(text_queue)) = 0)
          /\ pc' = [pc EXCEPT ![UI] = "svc_flush"]
  /\ UNCHANGED pureVars
  /\ UNCHANGED <<text_queue_proc, text_queue_lock, cmdVars, uiTodo, uiAfter, tag, str,
                 jobVars, countVars, histVars>>

\* lines 354-359: append to the panel, reschedule if blocks remain
ServiceFlush ==
  /\ pc[UI] = "svc_flush"
  /\ output_panel' = output_panel \o characters
  /\ drained' = drained \o characters
  /\ IF is_empty
     THEN timeouts' = timeouts
     ELSE timeouts' \in set_timeout(timeouts, Timeout("service_text_queue", None, 1))
  /\ characters' = <<>>
  /\ is_empty' = FALSE
  /\ pc' = [pc EXCEPT ![UI] = "idle"]
  /\ UNCHANGED pureVars
  /\ UNCHANGED <<queueVars, proc, quiet, uiTodo, uiAfter, tag, str, jobVars, countVars,
                 killCalls, termCount, finishedCalls, lateData, sawEOF, superseded,
                 accepted, applied>>

\* -------------------------------------------------- PmccabeCommand.finish
\* The append_string calls of lines 362-372 for exit code class `code`.
FinishCalls(p, code) ==
  IF code = "nonzero"
  THEN <<Call(p, FinishedExitText(p)), Call(p, DebugText)>>
  ELSE <<Call(p, FinishedInText(p))>>

\* finish(proc) run from the scheduler, lines 362-372
FinishStart(code) ==
  /\ pc[UI] = "idle"
  /\ timeouts # <<>>
  /\ Head(timeouts).fn = "finish"
  /\ timeouts' = Tail(timeouts)
  /\ LET p == Head(timeouts).arg IN
     /\ code = "nonzero" => ~alive[p]
     /\ IF ~quiet
        THEN UIAppends(FinishCalls(p, code), "fin_check", p)
        ELSE /\ pc' = [pc EXCEPT ![UI] = "fin_check"]
             /\ uiAfter' = [pc |-> "fin_check", proc |-> p]
             /\ UNCHANGED <<tag, str, uiTodo>>
  /\ UNCHANGED pureVars
  /\ UNCHANGED <<queueVars, cmdVars, characters, is_empty, jobVars, countVars,
                 histVars>>

\* lines 374-382: `if proc != self.proc: return`, else highlight_results /
\* add_phantoms_to_active_view
FinishApply ==
  /\ pc[UI] = "fin_check"
  /\ applied' = IF uiAfter.proc # proc THEN applied ELSE applied \cup {uiAfter.proc}
  /\ uiAfter' = [pc |-> "idle", proc |-> None]
  /\ pc' = [pc EXCEPT ![UI] = "idle"]
  /\ UNCHANGED pureVars
  /\ UNCHANGED <<queueVars, cmdVars, uiTodo, characters, is_empty, tag, str, jobVars,
                 countVars, killCalls, termCount, finishedCalls, lateData, sawEOF,
                 superseded, accepted, drained, timeouts>>

\* ---------------------------------------------- AsyncProcess.read_fileno
\* line 126: `self.listener.encoding` raises when kill() already ran
ReaderInit(r) ==
  /\ pc[r] = "init"
  /\ pc' = [pc EXCEPT ![r] = IF listener[r[1]] THEN "read" ELSE "crashed"]
  /\ UNCHANGED pureVars
  /\ UNCHANGED <<queueVars, cmdVars, uiVars, tag, str, jobVars, countVars, histVars,
                 timeouts>>

\* lines 129-133: os.read returned bytes that decode to n > 0 characters;
\* `if self.listener:` is the first of two reads of self.listener
ReadData(r, n) ==
  /\ pc[r] = "read"
  /\ nData < limit.data
  /\ nData' = nData + 1
  /\ IF listener[r[1]]
     THEN /\ pc' = [pc EXCEPT ![r] = "on_data"]
          /\ tag' = [tag EXCEPT ![r] = r[1]]
          /\ str' = [str EXCEPT ![r] = <<Frag(r[1], r[2], nData + 1, n)>>]
     ELSE UNCHANGED <<pc, tag, str>>
  /\ UNCHANGED pureVars
  /\ UNCHANGED <<queueVars, cmdVars, uiVars, jobVars, nJobs, nRuns, nCancels, limit, histVars,
                 timeouts>>

\* lines 129, 134-141: the decoder returned '' (eof: os.read returned no
\* bytes; otherwise it returned only the start of a multi-byte character):
\* close, and on stdout test self.listener before calling on_finished
ReadNothing(r, eof) ==
  /\ pc[r] = "read"
  /\ IF eof THEN ~alive[r[1]] /\ nData' = nData
            ELSE nData < limit.data /\ nData' = nData + 1
  /\ sawEOF' = [sawEOF EXCEPT ![r] = eof]
  /\ pc' = [pc EXCEPT ![r] = IF r[2] = "out" /\ listener[r[1]]
                              THEN "on_finished" ELSE "done"]
  /\ UNCHANGED pureVars
  /\ UNCHANGED <<queueVars, cmdVars, uiVars, tag, str, jobVars, nJobs, nRuns, nCancels,
                 limit, killCalls, termCount, finishedCalls, lateData, superseded, accepted,
                 drained, applied, timeouts>>

\* line 133 and on_data (384-389): the second read of self.listener raises
\* when kill() ran in between; otherwise the text goes to append_string
OnData(r) ==
  /\ pc[r] = "on_data"
  /\ IF listener[r[1]]
     THEN /\ pc' = [pc EXCEPT ![r] = "app_lock"]
          /\ lateData' = [lateData EXCEPT ![r[1]] = @ \/ finishedCalls[r[1]] > 0]
          /\ UNCHANGED <<tag, str>>
     ELSE /\ pc' = [pc EXCEPT ![r] = "crashed"]
          /\ tag' = [tag EXCEPT ![r] = None]
          /\ str' = [str EXCEPT ![r] = <<>>]
          /\ UNCHANGED lateData
  /\ UNCHANGED pureVars
  /\ UNCHANGED <<queueVars, cmdVars, uiVars, jobVars, countVars, killCalls, termCount,
                 finishedCalls, sawEOF, superseded, accepted, drained, applied,
                 timeouts>>

\* line 140 and on_finished (391-392): schedule finish(proc) on the UI thread
OnFinished(r) ==
  /\ pc[r] = "on_finished"
  /\ IF listener[r[1]]
     THEN /\ pc' = [pc EXCEPT ![r] = "done"]
          /\ finishedCalls' = [finishedCalls EXCEPT ![r[1]] = @ + 1]
          /\ timeouts' \in set_timeout(timeouts, Timeout("finish", r[1], 0))
     ELSE /\ pc' = [pc EXCEPT ![r] = "crashed"]
          /\ UNCHANGED <<finishedCalls, timeouts>>
  /\ UNCHANGED pureVars
  /\ UNCHANGED <<queueVars, cmdVars, uiVars, tag, str, jobVars, countVars, killCalls,
                 termCount, lateData, sawEOF, superseded, accepted, drained, applied>>

\* The analyzer process exits (on its own, or after a termination signal).
ProcExit(j) ==
  /\ alive[j]
  /\ alive' = [alive EXCEPT ![j] = FALSE]
  /\ UNCHANGED pureVars
  /\ UNCHANGED <<queueVars, cmdVars, uiVars, threadVars, killed, listener, countVars,
                 histVars, timeouts>>

\* ---------------------------------------------------------- specification
Next ==
  \/ RunReset
  \/ \E ok \in BOOLEAN, q \in BOOLEAN : RunSpawn(ok, q)
  \/ RunRegister
  \/ RunKill
  \/ CancelAfter
  \/ ServicePop
  \/ ServiceFlush
  \/ \E code \in {"zero_or_none", "nonzero"} : FinishStart(code)
  \/ FinishApply
  \/ \E t \in Threads : AppLock(t) \/ AppSched(t) \/ KillCheck(t) \/ KillDo(t)
                          \/ KillClear(t)
  \/ \E r \in Readers : \/ ReaderInit(r)
                        \/ \E n \in DataLens : ReadData(r, n)
                        \/ \E eof \in BOOLEAN : ReadNothing(r, eof)
                        \/ OnData(r)
                        \/ OnFinished(r)
  \/ \E j \in Jobs : ProcExit(j)

Spec == Init /\ [][Next]_vars

SpecStream == StreamInit /\ [][Next]_vars

\* The steps the program takes by itself: a handler the host has started
\* runs on, the host runs the callback that is due, and a thread that is
\* not blocked in os.read runs on.  (Requests of the user, data and
\* end-of-stream on the pipes and the exit of a process are not among them.)
Progress ==
  \/ \E ok \in BOOLEAN, q \in BOOLEAN : RunSpawn(ok, q)
  \/ RunRegister
  \/ CancelAfter
  \/ ServicePop
  \/ ServiceFlush
  \/ \E code \in {"zero_or_none", "nonzero"} : FinishStart(code)
  \/ FinishApply
  \/ \E t \in Threads : AppLock(t) \/ AppSched(t) \/ KillCheck(t) \/ KillDo(t)
                          \/ KillClear(t)
  \/ \E r \in Readers : ReaderInit(r) \/ OnData(r) \/ OnFinished(r)

\* One job, several reads, with the UI thread and the reader threads
\* scheduled fairly.
SpecStreamFair == StreamInit /\ [][Next]_vars /\ WF_vars(Progress)

\* ------------------------------------- read_fileno and on_data, by bytes
\* Bytes: an ASCII letter, CR, LF, the lead byte of a two-byte UTF-8
\* sequence and a continuation byte.
Bytes == {"61", "0D", "0A", "C3", "A9"}

\* Characters: the letter, CR, LF, the two-byte character, U+FFFD.
CharOf(b) == CASE b = "61" -> "a" [] b = "0D" -> "\r" [] b = "0A" -> "\n"

RECURSIVE SeqsUpTo(_, _)
SeqsUpTo(S, n) ==
  IF n = 0 THEN {<<>>}
  ELSE LET shorter == SeqsUpTo(S, n - 1)
       IN shorter \cup {Append(q, x) : q \in {t \in shorter : Len(t) = n - 1}, x \in S}

\* codecs utf-8 decoding with errors='replace' and final=False, line 129:
\* the text decoded from bytes d, and the incomplete tail left undecoded.
RECURSIVE Utf8Decode(_)
Utf8Decode(d) ==
  IF d = <<>> THEN [text |-> <<>>, rest |-> <<>>]
  ELSE IF Head(d) = "C3"
       THEN IF Len(d) = 1 THEN [text |-> <<>>, rest |-> d]
            ELSE IF d[2] = "A9"
                 THEN LET r == Utf8Decode(SubSeq(d, 3, Len(d)))
                      IN [text |-> <<"e'">> \o r.text, rest |-> r.rest]
                 ELSE LET r == Utf8Decode(Tail(d))
                      IN [text |-> <<"U+FFFD">> \o r.text, rest |-> r.rest]
       ELSE LET r == Utf8Decode(Tail(d))
                c == IF Head(d) = "A9" THEN "U+FFFD" ELSE CharOf(Head(d))
            IN [text |-> <<c>> \o r.text, rest |-> r.rest]

\* IncrementalDecoder.decode(input): decode the kept bytes followed by input
IncrementalDecode(kept, input) == Utf8Decode(kept \o input)

\* data.replace('\r\n', '\n')
RECURSIVE ReplaceCRLF(_)
ReplaceCRLF(t) ==
  IF t = <<>> THEN <<>>
  ELSE IF Len(t) >= 2 /\ t[1] = "\r" /\ t[2] = "\n"
       THEN <<"\n">> \o ReplaceCRLF(SubSeq(t, 3, Len(t)))
       ELSE <<Head(t)>> \o ReplaceCRLF(Tail(t))

\* data.replace('\r', '\n')
ReplaceCR(t) == [i \in DOMAIN t |-> IF t[i] = "\r" THEN "\n" ELSE t[i]]

\* on_data, line 387
Normalize(t) == ReplaceCR(ReplaceCRLF(t))

DecodeInit ==
  /\ MainInit([runs |-> 0, cancels |-> 0, data |-> 0])
  /\ ParseOff
  /\ AnnotateOff
  /\ stream \in SeqsUpTo(Bytes, MaxStreamLen)
  /\ unread = stream
  /\ buffer = <<>>
  /\ fragments = <<>>
  /\ loop = "reading"

\* One pass of the read loop, lines 129-141: os.read returns the next k
\* bytes (k = 0 at end of stream); non-empty decoded text goes through
\* on_data to append_string, empty decoded text ends the loop.
ReadBuffer(k) ==
  /\ loop = "reading"
  /\ IF unread = <<>> THEN k = 0 ELSE k >= 1
  /\ LET d == IncrementalDecode(buffer, SubSeq(unread, 1, k)) IN
     /\ unread' = SubSeq(unread, k + 1, Len(unread))
     /\ buffer' = d.rest
     /\ IF Len(d.text) > 0
        THEN fragments' = Append(fragments, Normalize(d.text)) /\ loop' = loop
        ELSE fragments' = fragments /\ loop' = IF k = 0 THEN "eof" ELSE "stopped"
  /\ UNCHANGED <<stream, mainVars, parseVars, annotateVars>>

DecodeNext == \E k \in 0..MaxStreamLen : k <= Len(unread) /\ ReadBuffer(k)

SpecDecode == DecodeInit /\ [][DecodeNext]_vars

\* ------------------------------------------ parse_complexity_results
Digits == {"0", "1", "2", "3", "4", "5", "6", "7", "8", "9"}
Spaces == {" ", "\t"}

DigitVal ==
  "0" :> 0 @@ "1" :> 1 @@ "2" :> 2 @@ "3" :> 3 @@ "4" :> 4 @@
  "5" :> 5 @@ "6" :> 6 @@ "7" :> 7 @@ "8" :> 8 @@ "9" :> 9

\* int(text) for a text of digits
RECURSIVE ToInt(_)
ToInt(d) ==
  IF d = <<>> THEN 0 ELSE 10 * ToInt(SubSeq(d, 1, Len(d) - 1)) + DigitVal[d[Len(d)]]

\* The index after the longest run of characters of C that starts at i.
RECURSIVE RunEnd(_, _, _)
RunEnd(t, i, C) == IF i <= Len(t) /\ t[i] \in C THEN RunEnd(t, i + 1, C) ELSE i

\* `(?P<...>\d+)\s+` matched at index i
IntThenSpace(t, i) ==
  LET e == RunEnd(t, i, Digits)
      f == RunEnd(t, e, Spaces)
  IN [ok |-> e > i /\ f > e, digits |-> SubSeq(t, i, e - 1), next |-> f]

\* `\((?P<definition_line>\d+)\):\s+` matches at index p
DefinitionLineAt(t, p) ==
  LET e == RunEnd(t, p + 1, Digits)
  IN /\ p <= Len(t) /\ t[p] = "("
     /\ e > p + 1
     /\ e + 2 <= Len(t)
     /\ t[e] = ")" /\ t[e + 1] = ":" /\ t[e + 2] \in Spaces

NoMatch == [matched |-> FALSE]

\* ComplexityLineRE.match(text), lines 24-29, and ComplexityResult(*groups):
\* five integers each followed by whitespace, then the greedy filename up to
\* the last `(digits):` followed by whitespace, then the function name.
ComplexityLineMatch(t) ==
  LET g1 == IntThenSpace(t, 1)
      g2 == IntThenSpace(t, g1.next)
      g3 == IntThenSpace(t, g2.next)
      g4 == IntThenSpace(t, g3.next)
      g5 == IntThenSpace(t, g4.next)
      at == {p \in g5.next..Len(t) : DefinitionLineAt(t, p)}
  IN IF ~(g1.ok /\ g2.ok /\ g3.ok /\ g4.ok /\ g5.ok) \/ at = {}
     THEN NoMatch
     ELSE LET p == CHOOSE x \in at : \A y \in at : y <= x
              e == RunEnd(t, p + 1, Digits)
              n == RunEnd(t, e + 2, Spaces)
          IN [matched |-> TRUE,
              modified_complexity |-> g1.digits,
              traditional_complexity |-> g2.digits,
              num_statements |-> g3.digits,
              first_line |-> g4.digits,
              lines_in_function |-> g5.digits,
              filename |-> SubSeq(t, g5.next, p - 1),
              definition_line |-> SubSeq(t, p + 1, e - 1),
              function_name |-> SubSeq(t, n, Len(t))]

\* change_regions_from_output_to_active, lines 274-277: the row given to
\* text_point for the start of the annotated region
AnchorRow(rec) == ToInt(rec.definition_line) - 1

\* The lines the analyzer writes: integer fields, file, optional
\* `(definition line)`, colon, function name.
IntFields ==
  {<< <<"3">>, <<"2">>, <<"5">>, <<"1", "0">>, <<"4">> >>,
   << <<"2", "0">>, <<"1", "5">>, <<"7">>, <<"1">>, <<"9">> >>}
FileNames == {<<"f", ".", "c">>, <<"d", " ", "f", ".", "c">>}
FunctionNames == {<<"g">>, <<"m", "y", "_", "f">>}
DefinitionLines == {<<>>, <<"1", "2">>, <<"7">>}

Shapes ==
  [ints : IntFields, count : {4, 5, 6}, sep : {1, 2}, file : FileNames,
   paren : DefinitionLines, gap : {0, 1, 2}, name : FunctionNames]

Blank(n) == [i \in 1..n |-> " "]

RECURSIVE IntsText(_, _)
IntsText(ints, sep) ==
  IF ints = <<>> THEN <<>> ELSE Head(ints) \o Blank(sep) \o IntsText(Tail(ints), sep)

LineOf(sh) ==
  LET ints == IF sh.count = 4 THEN SubSeq(sh.ints, 1, 4)
              ELSE IF sh.count = 6 THEN Append(sh.ints, <<"6">>)
              ELSE sh.ints
  IN IntsText(ints, sh.sep) \o sh.file
       \o (IF sh.paren = <<>> THEN <<>> ELSE <<"(">> \o sh.paren \o <<")">>)
       \o <<":">> \o Blank(sh.gap) \o sh.name

ParseInit ==
  /\ MainInit([runs |-> 0, cancels |-> 0, data |-> 0])
  /\ DecodeOff
  /\ AnnotateOff
  /\ shape \in Shapes
  /\ line = LineOf(shape)
  /\ record = NoMatch
  /\ parsed = FALSE

\* parse_complexity_results, lines 34-38, for one line
ParseLine ==
  /\ ~parsed
  /\ line # <<>>
  /\ parsed' = TRUE
  /\ record' = ComplexityLineMatch(line)
  /\ UNCHANGED <<line, shape, mainVars, decodeVars, annotateVars>>

SpecParse == ParseInit /\ [][ParseLine]_vars

\* -------------------------- sort_results_into_buckets, regions, phantoms
\* pmccabe.sublime-settings: the defaults of lines 167 and 171, and a
\* configuration with both thresholds equal.
Settings ==
  {[high_complexity_threshold |-> 15, medium_complexity_threshold |-> 7],
   [high_complexity_threshold |-> 10, medium_complexity_threshold |-> 10]}

high_complexity_threshold == settings.high_complexity_threshold
medium_complexity_threshold == settings.medium_complexity_threshold

\* The keys of output_regions in the order a dict iterates over them.
BucketNames == <<"low_complexity", "medium_complexity", "high_complexity">>

\* A classification that sends a value equal to a threshold upwards.
BucketOfAtLeast(result) ==
  IF ToInt(result.modified_complexity) >= high_complexity_threshold
  THEN "high_complexity"
  ELSE IF ToInt(result.modified_complexity) >= medium_complexity_threshold
       THEN "medium_complexity"
       ELSE "low_complexity"

\* A classification with the first comparison turned around.
BucketOfBelow(result) ==
  IF ToInt(result.modified_complexity) < high_complexity_threshold
  THEN "high_complexity"
  ELSE IF ToInt(result.modified_complexity) > medium_complexity_threshold
       THEN "medium_complexity"
       ELSE "low_complexity"

\* lines 226-231: the if / elif / else of the loop body
BucketOf(result) ==
  IF ToInt(result.modified_complexity) > high_complexity_threshold
  THEN "high_complexity"
  ELSE IF ToInt(result.modified_complexity) > medium_complexity_threshold
       THEN "medium_complexity"
       ELSE "low_complexity"

\* sort_results_into_buckets(results): each pair is appended to its bucket
\* in the order of the list
RECURSIVE sort_results_into_buckets(_)
sort_results_into_buckets(rs) ==
  IF rs = <<>>
  THEN [b \in Range(BucketNames) |-> <<>>]
  ELSE LET output_regions == sort_results_into_buckets(SubSeq(rs, 1, Len(rs) - 1))
           pair == rs[Len(rs)]
       IN [output_regions EXCEPT ![BucketOf(pair.result)] = Append(@, pair)]

get_scope_for_bucket(result_bucket) ==
  IF result_bucket = "high_complexity" THEN "invalid.illegal"
  ELSE IF result_bucket = "medium_complexity" THEN "" ELSE "comment"

get_css_for_bucket(result_bucket) ==
  IF result_bucket = "high_complexity" THEN "color: var(--redish);"
  ELSE IF result_bucket = "medium_complexity" THEN "" ELSE "color: var(--bluish);"

\* target_view.text_point(row, 0): the start of line `row`; the host clamps
\* a row outside the buffer to the buffer's start or end.  A point is a row
\* and whether it is the end of the buffer.
text_point(row) ==
  IF row < 0 THEN <<0, FALSE>>
  ELSE IF row < target_rows THEN <<row, FALSE>>
  ELSE <<target_rows - 1, TRUE>>

Region(a, b) == <<a, b>>

\* change_regions_from_output_to_active(complexity_buckets)
change_regions_from_output_to_active(buckets) ==
  [b \in DOMAIN buckets |->
    [i \in DOMAIN buckets[b] |->
      LET result == buckets[b][i].result
          region_start == text_point(ToInt(result.definition_line) - 1)
          region_end == text_point(ToInt(result.definition_line))
      IN [result |-> result, region |-> Region(region_start, region_end)]]]

\* sublime.Phantom(region, _phantom_content.format(...), LAYOUT_BLOCK)
Phantom(bucket, pair) ==
  [region |-> pair.region,
   bucket |-> bucket,
   css_text_color |-> get_css_for_bucket(bucket),
   modified |-> pair.result.modified_complexity,
   traditional |-> pair.result.traditional_complexity]

\* lines 293-304: one phantom per pair, bucket after bucket
RECURSIVE PhantomsOf(_, _)
PhantomsOf(buckets, names) ==
  IF names = <<>> THEN <<>>
  ELSE [i \in DOMAIN buckets[Head(names)] |->
          Phantom(Head(names), buckets[Head(names)][i])]
       \o PhantomsOf(buckets, Tail(names))

\* The records the parser can return: complexities below, on, between and
\* above the default thresholds; definition lines near the start of the
\* file and far down.
ModifiedComplexities == {<<"5">>, <<"7">>, <<"1", "0">>, <<"1", "5">>, <<"2", "0">>}
ResultRecords ==
  [modified_complexity : ModifiedComplexities,
   traditional_complexity : {<<"9">>},
   definition_line : {<<"1">>, <<"3">>, <<"1", "2">>}]
TargetRowCounts == {1, 3}

\* parse_complexity_results' list: (record, region of its output line),
\* in the order of the lines.
ResultLists ==
  {[i \in DOMAIN rs |-> [result |-> rs[i], region |-> i]] :
     rs \in SeqsUpTo(ResultRecords, MaxResults)}

AnnotateInit ==
  /\ MainInit([runs |-> 0, cancels |-> 0, data |-> 0])
  /\ DecodeOff
  /\ ParseOff
  /\ results \in ResultLists
  /\ settings \in Settings
  /\ target_rows \in TargetRowCounts
  /\ complexity_buckets = <<>>
  /\ regions = <<>>
  /\ phantoms = <<>>
  /\ stage = "results"

\* highlight_results, lines 256-267 (finish, line 378)
HighlightResults ==
  /\ stage = "results"
  /\ complexity_buckets' = sort_results_into_buckets(results)
  /\ regions' = [b \in Range(BucketNames) |->
                   [scope |-> get_scope_for_bucket(b),
                    regions |-> [i \in DOMAIN complexity_buckets'[b] |->
                                   complexity_buckets'[b][i].region]]]
  /\ stage' = "highlighted"
  /\ UNCHANGED <<results, settings, target_rows, phantoms, mainVars, decodeVars,
                 parseVars>>

\* add_phantoms_to_active_view, lines 286-305 (finish, line 380)
AddPhantoms ==
  /\ stage \in {"results", "highlighted"}
  /\ complexity_buckets' =
       change_regions_from_output_to_active(sort_results_into_buckets(results))
  /\ phantoms' = PhantomsOf(complexity_buckets', BucketNames)
  /\ stage' = "annotated"
  /\ UNCHANGED <<results, settings, target_rows, regions, mainVars, decodeVars,
                 parseVars>>

AnnotateNext == HighlightResults \/ AddPhantoms

SpecAnnotate == AnnotateInit /\ [][AnnotateNext]_vars

\* ------------------------------------------------------------ properties
\* Every thread is blocked in os.read or has ended, the UI thread is idle
\* and no callback is pending: nothing happens until the user or an
\* analyzer process acts.
Quiescent ==
  /\ pc[UI] = "idle"
  /\ timeouts = <<>>
  /\ \A r \in Readers : pc[r] \in {"none", "read", "done", "crashed"}

\* C1: a job whose process was still running when a later run() started a
\* new job has received a kill request once that run has had all its
\* effects (the program is quiescent), even if the old process stays silent
\* and never exits.
C1_PreviousJobKilled ==
  \A j \in Jobs :
    (j \in superseded /\ j < nJobs /\ alive[j] /\ Quiescent) => killCalls[j] > 0

\* C2: after run() has reset the queue for a later job, no text of an
\* earlier job that was still running is in the queue, is removed from it,
\* or is flushed to the output panel.
C2_NoSupersededText ==
  \A f \in Range(drained \o characters \o Flatten(text_queue)) :
    f.src \notin superseded

\* A superseded job had its output discarded and killed, and text of the
\* new job has reached the panel.
C2_Witness ==
  \E j \in superseded :
    /\ killCalls[j] > 0
    /\ \E f \in Range(drained) : f.src # None /\ f.src # j

\* C3: for a job that exited on its own and was never killed, on_finished
\* is called at most once, only after both read loops have seen
\* end-of-stream, and no on_data call follows it.
C3_FinishedAfterBothStreams ==
  \A j \in Jobs :
    (killCalls[j] = 0 /\ ~alive[j] /\ sawEOF[<<j, "out">>] /\ finishedCalls[j] > 0)
      => /\ finishedCalls[j] = 1
         /\ pc[<<j, "err">>] = "done"
         /\ ~lateData[j]

\* C4: with no reset in between, the text removed by service_text_queue,
\* followed by the text still queued, is exactly the accepted text in the
\* order of acceptance.
C4_QueuePreservesText ==
  drained \o characters \o Flatten(text_queue) = accepted

\* Two reads of one stream and a finish marker were accepted and all of it
\* has been flushed, in more than one block.
C4_Witness ==
  /\ Len(accepted) >= 3
  /\ drained = accepted
  /\ \E i, k \in DOMAIN accepted :
       /\ i < k
       /\ accepted[i].kind = "out" /\ accepted[k].kind = "out"
       /\ accepted[i].len + accepted[k].len > BLOCK_SIZE

\* C5: every block in text_queue, and every block service_text_queue has
\* removed for the panel, is at most BLOCK_SIZE characters long.
C5_BlocksWithinBlockSize ==
  /\ \A i \in DOMAIN text_queue : TextLen(text_queue[i]) <= BLOCK_SIZE
  /\ TextLen(characters) <= BLOCK_SIZE

\* C7: over all kill calls on one job, the termination action runs at most
\* once.
C7_TerminationAtMostOnce ==
  \A j \in Jobs : termCount[j] <= 1

\* Thread t takes a step.
Steps(t) == pc'[t] # pc[t] \/ (t = UI /\ uiTodo' # uiTodo)

\* C8: an append_string call whose tag is a job other than text_queue_proc
\* leaves text_queue unchanged, schedules no drain and calls kill on that
\* job; a call whose tag is None or text_queue_proc adds its string at the
\* end of the queue.
C8_StalenessRule ==
  [][\A t \in Threads :
       /\ (pc[t] = "app_lock" /\ Steps(t)) =>
            IF tag[t] # None /\ tag[t] # text_queue_proc
            THEN /\ text_queue' = text_queue
                 /\ timeouts' = timeouts
                 /\ pc'[t] = "kill_check"
                 /\ tag'[t] = tag[t]
                 /\ killCalls'[tag[t]] = killCalls[tag[t]] + 1
            ELSE /\ Flatten(text_queue') = Flatten(text_queue) \o str[t]
                 /\ Len(text_queue') >= 1
       /\ (pc[t] \in {"kill_check", "kill_do", "kill_clear"} /\ Steps(t)) =>
            /\ text_queue' = text_queue
            /\ timeouts' = timeouts
            /\ pc'[t] # "app_sched"]_vars

\* A reader's stale call is inside kill() while another thread's accepted
\* text is queued.
C8_Witness ==
  \E r \in Readers :
    /\ pc[r] = "kill_check"
    /\ text_queue_lock = r
    /\ text_queue # <<>>

\* C9: no append_string call runs between run()'s clearing of the queue and
\* its registration of the new job, once the new job's process exists.
C9_ResetAndRegisterAtomic ==
  pc[UI] = "run_register" => text_queue_lock = Unlocked

\* The stream decoded and normalised in one pass.
OnePass(bytes) == Normalize(IncrementalDecode(<<>>, bytes).text)

\* C6: however the stream is split into reads, once it has been read to
\* its end the fragments that reached append_string, concatenated, are the
\* one-pass decoding and normalisation of the whole stream.
C6_SplitEqualsOnePass ==
  loop = "eof" => Flatten(fragments) = OnePass(stream)

\* A line of the analyzer's grammar: five or six integers, a file, an
\* optional definition line, a colon, whitespace and a function name.
GrammarLine(sh) == sh.count \in {5, 6} /\ sh.gap >= 1

\* C10: a line of the grammar yields a record whether or not it has the
\* definition-line field; the annotation is anchored at the definition line
\* when the field is present and at the record's first line when it is not.
C10_BothVariantsParsed ==
  (parsed /\ GrammarLine(shape)) =>
    /\ record.matched
    /\ AnchorRow(record) = (IF shape.paren # <<>> THEN ToInt(shape.paren)
                                                 ELSE ToInt(shape.ints[4])) - 1

\* The bucket of list `bs` that holds a pair with output line region n.
BucketsHolding(bs, n) ==
  {b \in DOMAIN bs : \E k \in DOMAIN bs[b] : bs[b][k].region = n}

\* C11: sort_results_into_buckets partitions the result list: every pair is
\* in exactly one bucket, once, chosen by the rule > high -> high, else
\* > medium -> medium, else low (a value equal to a threshold goes to the
\* lower bucket), and the pairs of a bucket are in the order of the list.
C11_BucketsPartitionInOrder ==
  stage = "highlighted" =>
    /\ \A i \in DOMAIN results :
         LET v == ToInt(results[i].result.modified_complexity)
             b == IF v > settings.high_complexity_threshold THEN "high_complexity"
                  ELSE IF v > settings.medium_complexity_threshold
                       THEN "medium_complexity"
                       ELSE "low_complexity"
         IN /\ BucketsHolding(complexity_buckets, i) = {b}
            /\ Cardinality({k \in DOMAIN complexity_buckets[b] :
                              complexity_buckets[b][k] = results[i]}) = 1
    /\ \A b \in DOMAIN complexity_buckets :
         /\ \A k \in DOMAIN complexity_buckets[b] :
              complexity_buckets[b][k] \in Range(results)
         /\ \A k1, k2 \in DOMAIN complexity_buckets[b] :
              k1 < k2 => complexity_buckets[b][k1].region < complexity_buckets[b][k2].region

\* With the default thresholds, a list with complexities 20, 15 and 7 has
\* been sorted: 20 is in high, 15 (equal to high) in medium and 7 (equal to
\* medium) in low.
C11_Witness ==
  /\ stage = "highlighted"
  /\ settings.high_complexity_threshold = 15
  /\ settings.medium_complexity_threshold = 7
  /\ \E k \in DOMAIN complexity_buckets["high_complexity"] :
       complexity_buckets["high_complexity"][k].result.modified_complexity = <<"2", "0">>
  /\ \E k \in DOMAIN complexity_buckets["medium_complexity"] :
       complexity_buckets["medium_complexity"][k].result.modified_complexity = <<"1", "5">>
  /\ \E k \in DOMAIN complexity_buckets["low_complexity"] :
       complexity_buckets["low_complexity"][k].result.modified_complexity = <<"7">>

\* The buckets from the lowest to the highest.
BucketRank(b) == CHOOSE n \in DOMAIN BucketNames : BucketNames[n] = b

\* The rank of the bucket that holds the pair with output line region n.
RankOf(n) == BucketRank(CHOOSE b \in BucketsHolding(complexity_buckets, n) : TRUE)

\* C12: for fixed thresholds, a record with a higher modified complexity
\* than another is never placed in a bucket lower than or equal to the
\* other's bucket: it is always in a strictly higher bucket.
C12_StrictlyHigherBucket ==
  stage = "highlighted" =>
    \A i, k \in DOMAIN results :
      ToInt(results[i].result.modified_complexity)
          > ToInt(results[k].result.modified_complexity)
        => RankOf(i) > RankOf(k)

\* C12 (amended): for fixed thresholds, a record with a higher modified
\* complexity than another is never placed in a lower bucket than the
\* other's; it may share the other's bucket.
C12_NeverLowerBucket ==
  stage = "highlighted" =>
    \A i, k \in DOMAIN results :
      ToInt(results[i].result.modified_complexity)
          > ToInt(results[k].result.modified_complexity)
        => RankOf(i) >= RankOf(k)

\* A sorted list holds two records of different complexity in one bucket
\* and a record of higher complexity in a higher bucket.
C12_Witness ==
  /\ stage = "highlighted"
  /\ \E i, k, m \in DOMAIN results :
       /\ ToInt(results[i].result.modified_complexity)
            > ToInt(results[k].result.modified_complexity)
       /\ RankOf(i) = RankOf(k)
       /\ ToInt(results[m].result.modified_complexity)
            > ToInt(results[i].result.modified_complexity)
       /\ RankOf(m) > RankOf(i)

\* The last request was a run() whose AsyncProcess(...) raised, and run()
\* has returned.
FailedRunReturned ==
  /\ pc[UI] = "idle"
  /\ ExceptionText[1] \in Range(accepted)

\* C13: after a run() that could not start its job has returned, no job is
\* registered as the queue's job, the command's current job is no job, and
\* (unless the run was quiet) the diagnostic text followed by the
\* "[Finished]" marker has been accepted.
C13_FailedRunLeavesNoJob ==
  FailedRunReturned =>
    /\ text_queue_proc = None
    /\ proc = None
    /\ ~quiet => \E i, k \in DOMAIN accepted :
                   /\ i < k
                   /\ accepted[i] = ExceptionText[1]
                   /\ accepted[k] = FinishedText[1]

\* The 0-based line index of the record's definition line exists in the
\* target view.
InBounds(result) ==
  /\ ToInt(result.definition_line) - 1 >= 0
  /\ ToInt(result.definition_line) - 1 < target_rows

\* The region of the single line `row` of the target view: from its start
\* to the start of the next line, or to the end of the buffer for the last
\* line.
SingleLine(row) ==
  <<  <<row, FALSE>>,
      IF row + 1 < target_rows THEN <<row + 1, FALSE>> ELSE <<target_rows - 1, TRUE>>  >>

\* C14: every annotation covers the single line at index (definition line
\* - 1) of the target view, and a record whose line index is outside the
\* target view gets no annotation: there is one phantom per in-bounds record
\* and none for the others.
C14_OutOfBoundsDropped ==
  stage = "annotated" =>
    /\ \A b \in DOMAIN complexity_buckets :
         \A k \in DOMAIN complexity_buckets[b] :
           LET pair == complexity_buckets[b][k]
           IN /\ InBounds(pair.result)
              /\ pair.region = SingleLine(ToInt(pair.result.definition_line) - 1)
    /\ Len(phantoms) = Cardinality({i \in DOMAIN results : InBounds(results[i].result)})

\* finish(proc) has passed `proc != self.proc` and is about to parse the
\* output panel.
AboutToParse == pc[UI] = "fin_check" /\ uiAfter.proc = proc

\* C15: when finish() of the current job parses the output panel, no text
\* read from the job's stdout (all of it accepted before the stdout loop
\* signalled completion) is still in text_queue or in a removed block not
\* yet appended: the panel holds the job's whole output.
C15_FlushedBeforeParse ==
  AboutToParse =>
    \A f \in Range(Flatten(text_queue) \o characters) :
      ~(f.src = proc /\ f.kind = "out")

\* Job j is the most recently started job and no run or cancel has been
\* requested since: the run() that spawned it is before its registration,
\* or its registration is still in force (every run() starts by resetting
\* text_queue_proc).
LatestJob(j) ==
  /\ j = nJobs
  /\ pc[UI] = "run_register" \/ text_queue_proc = j

\* C16: while a job is the most recently started one and no later run or
\* cancel has been requested, no append_string call tagged with it has been
\* treated as stale: kill has not been called on it and none of its output
\* was discarded.
C16_LatestJobNeverStale ==
  \A j \in Jobs : LatestJob(j) => killCalls[j] = 0

\* A service_text_queue call is pending on the host scheduler.
ServicePending == \E i \in DOMAIN timeouts : timeouts[i].fn = "service_text_queue"

\* A thread has left the critical section of append_string or of
\* service_text_queue and its set_timeout(service_text_queue, ...) call is
\* the next thing it does.
AboutToSchedule ==
  \/ \E t \in Threads : pc[t] = "app_sched"
  \/ pc[UI] = "svc_flush" /\ ~is_empty

C18_LoopEndsOnlyAtEOF ==
  loop \in {"eof", "stopped"} => (loop = "eof" /\ unread = <<>>)

\* C19: finish() applies regions and phantoms only for the job most
\* recently requested through run(): when it passes its `proc != self.proc`
\* test, no run request (spawned or failed) and no cancel has been issued
\* since that job was registered, i.e. the job is still text_queue_proc,
\* which every request resets first.
C19_OnlyLatestRequestApplies ==
  AboutToParse => text_queue_proc = proc

\* C20: text_queue_lock is never held by the thread that changes the output
\* panel: service_text_queue has released it when it appends the removed
\* block, and no step of a thread holding the lock changes the panel.
C20_NoLockDuringFlush ==
  /\ [](pc[UI] = "svc_flush" => text_queue_lock # UI)
  /\ [][output_panel' # output_panel =>
          (text_queue_lock # UI /\ text_queue_lock' # UI)]_vars

\* The consumer has removed a block and is about to append it to the panel
\* while a reader thread is inside append_string's critical section.
C20_Witness ==
  /\ pc[UI] = "svc_flush"
  /\ characters # <<>>
  /\ text_queue_lock \in Readers

====
